---- MODULE Spec2Model ----
(***************************************************************************)
(* fix_params.py: the Next.js 15 route-parameter migration script.         *)
(*                                                                         *)
(* Texts are TLA+ strings handled character by character (Len, SubSeq and  *)
(* \o on strings), with Python's 0-based indices, so that find, rfind,     *)
(* re.sub, split, join and lstrip are modelled by what they do.            *)
(***************************************************************************)
EXTENDS Integers, Sequences, FiniteSets, TLC

(***************************************************************************)
(* Python string primitives                                                *)
(***************************************************************************)

\* s[i:j] for 0 <= i, j already clamped to 0..len(s)
Slice(s, i, j) == SubSeq(s, i + 1, j)

\* s.startswith(sub, i)
StartsAt(s, i, sub) == /\ i + Len(sub) <= Len(s)
                       /\ SubSeq(s, i + 1, i + Len(sub)) = sub

\* the lowest of a non-empty set of integers
MinOf(S) == CHOOSE x \in S : \A y \in S : x <= y

\* the highest of a non-empty set of integers
MaxOf(S) == CHOOSE x \in S : \A y \in S : y <= x

\* s.find(sub, start): the lowest index at or after start, -1 when absent
Find(s, sub, start) ==
  LET hits == { i \in start..(Len(s) - Len(sub)) : StartsAt(s, i, sub) }
  IN IF hits = {} THEN -1 ELSE MinOf(hits)

\* sub in s
Contains(s, sub) == Find(s, sub, 0) # -1

\* Python's slice-index adjustment of an end argument: negative counts from the end
ClampIndex(s, e) == IF e < 0 THEN (IF e + Len(s) < 0 THEN 0 ELSE e + Len(s))
                    ELSE IF e > Len(s) THEN Len(s) ELSE e

\* s.rfind(sub, start, end): the highest index in s[start:end], -1 when absent
RFind(s, sub, start, end) ==
  LET hits == { i \in ClampIndex(s, start)..(ClampIndex(s, end) - Len(sub)) :
                  StartsAt(s, i, sub) }
  IN IF hits = {} THEN -1 ELSE MaxOf(hits)

\* s.split(sep) from position i on: always at least one element
RECURSIVE SplitFrom(_, _, _)
SplitFrom(s, sep, i) ==
  LET p == Find(s, sep, i)
  IN IF p = -1 THEN << Slice(s, i, Len(s)) >>
     ELSE << Slice(s, i, p) >> \o SplitFrom(s, sep, p + Len(sep))

Split(s, sep) == SplitFrom(s, sep, 0)

\* sep.join(xs)
RECURSIVE Join(_, _)
Join(xs, sep) ==
  IF Len(xs) = 0 THEN ""
  ELSE IF Len(xs) = 1 THEN xs[1]
  ELSE xs[1] \o sep \o Join(Tail(xs), sep)

\* the characters \s of re and str.lstrip() strips (those a TLA+ string can spell)
Whitespace == {" ", "\t", "\n", "\r", "\f"}

IsSpaceAt(s, i) == i < Len(s) /\ SubSeq(s, i + 1, i + 1) \in Whitespace

\* the end of the run of whitespace that starts at i (\s*, greedy)
RECURSIVE SkipSpace(_, _)
SkipSpace(s, i) == IF IsSpaceAt(s, i) THEN SkipSpace(s, i + 1) ELSE i

\* len(line) - len(line.lstrip())
LeadingSpace(line) == SkipSpace(line, 0)

\* ' ' * n
RECURSIVE Spaces(_)
Spaces(n) == IF n <= 0 THEN "" ELSE " " \o Spaces(n - 1)

(***************************************************************************)
(* re.sub for the two patterns of the script.  Both are sequences of       *)
(* literal chunks with \s* between adjacent chunks; every chunk starts     *)
(* with a non-space character, so greedy \s* never needs to backtrack.     *)
(***************************************************************************)

\* where a match of chunks[k..] that starts at i ends, or -1
RECURSIVE MatchChunks(_, _, _, _)
MatchChunks(s, i, chunks, k) ==
  IF k > Len(chunks) THEN i
  ELSE LET j == IF k = 1 THEN i ELSE SkipSpace(s, i)
       IN IF StartsAt(s, j, chunks[k])
          THEN MatchChunks(s, j + Len(chunks[k]), chunks, k + 1)
          ELSE -1

\* the start of the leftmost match at or after i, or -1
NextMatch(s, chunks, i) ==
  LET hits == { j \in i..(Len(s) - 1) : MatchChunks(s, j, chunks, 1) # -1 }
  IN IF hits = {} THEN -1 ELSE MinOf(hits)

\* re.sub(pattern, repl, s) from position i on: every non-overlapping match, left to right
RECURSIVE ReSubFrom(_, _, _, _)
ReSubFrom(s, chunks, repl, i) ==
  LET m == NextMatch(s, chunks, i)
  IN IF m = -1 THEN Slice(s, i, Len(s))
     ELSE Slice(s, i, m) \o repl \o ReSubFrom(s, chunks, repl, MatchChunks(s, m, chunks, 1))

ReSub(s, chunks, repl) == ReSubFrom(s, chunks, repl, 0)

\* the number of matches re.sub replaces
RECURSIVE MatchCountFrom(_, _, _)
MatchCountFrom(s, chunks, i) ==
  LET m == NextMatch(s, chunks, i)
  IN IF m = -1 THEN 0 ELSE 1 + MatchCountFrom(s, chunks, MatchChunks(s, m, chunks, 1))

MatchCount(s, chunks) == MatchCountFrom(s, chunks, 0)

(***************************************************************************)
(* fix_route_file, step by step                                            *)
(***************************************************************************)

\* open(filepath, 'r', encoding='utf-8').read(): universal newlines
Decode(data) == ReSub(ReSub(data, << "\r\n" >>, "\n"), << "\r" >>, "\n")

\* the write stops half way through the text
Encode_Partial(content) == Slice(content, 0, Len(content) \div 2)

\* f.write(content) on a POSIX build: '\n' is written as it is
Encode(content) == content

\* \{\s*params\s*\}:\s*\{\s*params:\s*\{\s*N:\s*string\s*\}\s*\}
SigChunks(param_name) ==
  << "{", "params", "}:", "{", "params:", "{", param_name \o ":", "string", "}", "}" >>

Marker == "{ params }: RouteParams"

\* the guard looks for a needle the injected block does not contain
AlreadyMigrated_WrongNeedle(content) == Contains(content, "interface Params")

\* 'interface RouteParams' in content
AlreadyMigrated(content) == Contains(content, "interface RouteParams")

\* import_section_end = content.rfind('\n', 0, content.find('\n\n')), else content.find('\n\n')
import_section_end(content) ==
  LET blank == Find(content, "\n\n", 0)
      r == RFind(content, "\n", 0, blank)
  IN IF r = -1 THEN blank ELSE r

interface_code(param_name) ==
  "\ninterface RouteParams {\n  params: Promise<{\n    " \o param_name
    \o ": string\n  }>\n}\n"

\* the block is injected only into a file whose signature Step 2 will replace
Inject_OnlyIfSignature(content, param_name) ==
  IF MatchCount(content, SigChunks(param_name)) = 0 THEN content
  ELSE LET e == import_section_end(content)
       IN Slice(content, 0, e + 1) \o interface_code(param_name)
            \o Slice(content, e + 1, Len(content))

\* content[:import_section_end + 1] + interface_code + content[import_section_end + 1:]
Inject(content, param_name) ==
  LET e == import_section_end(content)
  IN Slice(content, 0, e + 1) \o interface_code(param_name)
       \o Slice(content, e + 1, Len(content))

\* re.sub with count=1: only the first signature is replaced
SigSub_FirstOnly(content, param_name) ==
  LET m == NextMatch(content, SigChunks(param_name), 0)
  IN IF m = -1 THEN content
     ELSE Slice(content, 0, m) \o Marker
            \o Slice(content, MatchChunks(content, m, SigChunks(param_name), 1), Len(content))

SigSub(content, param_name) == ReSub(content, SigChunks(param_name), Marker)

\* ' ' * (indent + 2) + f'const {{ {param_name} }} = await params\n'
ExtractLine(line, param_name) ==
  Spaces(LeadingSpace(line) + 2) \o "const { " \o param_name \o " } = await params\n"

\* the scan forgets the trigger: any 'try {' line gets an extraction until one was added
ScanLine_IgnoresArm(line, in_function, added_await, param_name) ==
  LET armed == IF Contains(line, Marker) THEN TRUE ELSE in_function
      added == IF Contains(line, Marker) THEN FALSE ELSE added_await
      hit == ~added /\ Contains(line, "try {")
  IN [ out |-> IF hit THEN << line, ExtractLine(line, param_name) >> ELSE << line >>,
       in_function |-> IF hit THEN FALSE ELSE armed,
       added_await |-> IF hit THEN TRUE ELSE added ]

\* the scan never disarms: every 'try {' line after a marker line gets an extraction
ScanLine_NoDisarm(line, in_function, added_await, param_name) ==
  LET armed == IF Contains(line, Marker) THEN TRUE ELSE in_function
      added == IF Contains(line, Marker) THEN FALSE ELSE added_await
      hit == armed /\ ~added /\ Contains(line, "try {")
  IN [ out |-> IF hit THEN << line, ExtractLine(line, param_name) >> ELSE << line >>,
       in_function |-> armed,
       added_await |-> added ]

\* one iteration of the loop over lines: what is appended and the flags afterwards
ScanLine(line, in_function, added_await, param_name) ==
  LET armed == IF Contains(line, Marker) THEN TRUE ELSE in_function
      added == IF Contains(line, Marker) THEN FALSE ELSE added_await
      hit == armed /\ ~added /\ Contains(line, "try {")
  IN [ out |-> IF hit THEN << line, ExtractLine(line, param_name) >> ELSE << line >>,
       in_function |-> IF hit THEN FALSE ELSE armed,
       added_await |-> IF hit THEN TRUE ELSE added ]

\* the whole loop: new_lines for lines[k..]
RECURSIVE ScanFrom(_, _, _, _, _)
ScanFrom(lines, k, in_function, added_await, param_name) ==
  IF k > Len(lines) THEN << >>
  ELSE LET r == ScanLine(lines[k], in_function, added_await, param_name)
       IN r.out \o ScanFrom(lines, k + 1, r.in_function, r.added_await, param_name)

InsertAwait(content, param_name) ==
  Join(ScanFrom(Split(content, "\n"), 1, FALSE, FALSE, param_name), "\n")

\* re.sub(rf'params\.{param_name}', param_name, content)
RefSub(content, param_name) == ReSub(content, << "params." \o param_name >>, param_name)

\* the text fix_route_file writes for a text that passes the guard
Transform(content, param_name) ==
  RefSub(InsertAwait(SigSub(Inject(content, param_name), param_name), param_name),
         param_name)

(***************************************************************************)
(* The configured files and the texts they may hold                        *)
(***************************************************************************)

\* files = [(filepath, param_name), ...]
files ==
  << << "src/app/api/quiz/[id]/route.ts", "id" >>,
     << "src/app/api/users/[username]/route.ts", "username" >>,
     << "src/app/api/users/[username]/follow/route.ts", "username" >> >>

Paths == { files[k][1] : k \in 1..Len(files) }

\* the longest body, in lines, of an enumerated route file
MaxBody == 3

\* how often the script is run on the same tree
MaxRuns == 2

SigLine ==
  "function GET({ params }: { params: { id: string } }, {params}:{\tparams:{username:string }}) {\n"

MarkerLine == "function PUT({ params }: RouteParams) {\n"

TryLine == "  try {\n"

UseLine == "    f(params.id, params.idSuffix, params.username, params.usernameSuffix)\n"

BodyLines == { SigLine, MarkerLine, TryLine, UseLine }

RECURSIVE BodiesOfLen(_)
BodiesOfLen(n) ==
  IF n = 0 THEN { "" }
  ELSE { b \o l : b \in BodiesOfLen(n - 1), l \in BodyLines }

Bodies == UNION { BodiesOfLen(n) : n \in 0..MaxBody }

DefaultHeader == "import a from 'a'\n\n"

DefaultBody == SigLine \o TryLine \o UseLine \o "  } catch {}\n}\n"

Headers ==
  { "",
    "\n\n",
    "import a from 'a'\n",
    "import a from 'a'\n\n",
    "import a from 'a'\nimport b from 'b'\n\n",
    "import a from 'a'\r\nimport b from 'b'\r\n\r\n",
    "type RouteParams = unknown\n\n",
    "interface RouteParams {\n  params: Promise<{ id: string }>\n}\n\n" }

HeaderTexts == { h \o DefaultBody : h \in Headers }

\* a file of several handlers, with a try block before, in and after them
SeveralHandlers ==
  DefaultHeader \o TryLine \o "} finally {}\n" \o MarkerLine \o TryLine \o UseLine
    \o "  } catch {}\n}\n" \o SigLine \o TryLine \o TryLine \o UseLine \o "  } catch {}\n}\n"

\* route files the patterns were not written for
OddTexts ==
  { "",
    SeveralHandlers,
    "function DEL({ params } : { params: { id: string } }, { params }: { params: { id: string } }) {\n\ttry {\n    g()\n",
    "function DEL({ params }: { params : { username : string } }) {\n\n  try { g(params.username)\n",
    "import a from 'a'\n\n// was ({ params }: { params: { params.id: string } })\nfunction h() {\n  try {\n    g()\n  } catch {}\n}\n" }

Texts == HeaderTexts \cup { DefaultHeader \o b : b \in Bodies } \cup OddTexts

(***************************************************************************)
(* The script as a state machine                                           *)
(***************************************************************************)

VARIABLES
  disk,         \* path -> the file's text as persisted
  mode,         \* path -> "ok" | "missing" | "unreadable" | "readonly"
  run,          \* which run of the script this is
  fi,           \* the driver loop's position in files (1-based)
  pc,           \* where control is
  content,      \* fix_route_file's local content
  lines,        \* content.split('\n')
  new_lines,
  li,           \* the scan's position in lines (1-based)
  in_function,
  added_await,
  ret,          \* position in files -> what the call returned in this run
  stdout,       \* the lines printed in this run
  start,        \* history: disk when this run began
  prevret,      \* history: ret of the run before
  wopened,      \* history: the paths opened for writing in this run
  src0,         \* history: the text the current call read
  inj,          \* history: content after the interface injection
  sig,          \* history: content after the signature replacement
  ins           \* history: the positions in lines after which a line was inserted

locals == << content, lines, new_lines, li, in_function, added_await >>
history == << start, prevret, wopened, src0, inj, sig, ins >>
vars == << disk, mode, run, fi, pc, locals, ret, stdout, history >>

filepath == files[fi][1]
param_name == files[fi][2]

NoReturns == [ k \in 1..Len(files) |-> "none" ]

Banner == << "Fixing params for Next.js 15..." >>

\* the I/O faults of one run: none, or one file that cannot be read or written
Faults ==
  { << 0, "ok" >> } \cup ((1..Len(files)) \X { "missing", "unreadable", "readonly" })

ModeOf(fault) ==
  [ p \in Paths |-> IF fault[1] # 0 /\ p = files[fault[1]][1] THEN fault[2] ELSE "ok" ]

Init ==
  \E t \in Texts, fault \in Faults :
    /\ fault[1] # 0 => t \in HeaderTexts
    /\ mode = ModeOf(fault)
    /\ disk = [ p \in Paths |-> IF mode[p] = "missing" THEN "" ELSE t ]
    /\ run = 1
    /\ fi = 1
    /\ pc = "loop"
    /\ content = ""
    /\ lines = << >>
    /\ new_lines = << >>
    /\ li = 1
    /\ in_function = FALSE
    /\ added_await = FALSE
    /\ ret = NoReturns
    /\ stdout = Banner
    /\ start = disk
    /\ prevret = NoReturns
    /\ wopened = {}
    /\ src0 = ""
    /\ inj = ""
    /\ sig = ""
    /\ ins = {}

\* the traceback of an uncaught exception ends the script
Raise ==
  /\ ret' = [ ret EXCEPT ![fi] = "raised" ]
  /\ pc' = "aborted"

\* for filepath, param in files: fix_route_file(filepath, param); open(filepath, 'r') and read
ReadOk ==
  /\ pc = "loop"
  /\ fi <= Len(files)
  /\ mode[filepath] \in { "ok", "readonly" }
  /\ content' = Decode(disk[filepath])
  /\ src0' = content'
  /\ inj' = ""
  /\ sig' = ""
  /\ ins' = {}
  /\ pc' = "guard"
  /\ UNCHANGED << disk, mode, run, fi, lines, new_lines, li, in_function, added_await,
                  ret, stdout, start, prevret, wopened >>

\* open(filepath, 'r') raises: nothing in the script catches it
ReadFail ==
  /\ pc = "loop"
  /\ fi <= Len(files)
  /\ mode[filepath] \in { "missing", "unreadable" }
  /\ Raise
  /\ UNCHANGED << disk, mode, run, fi, locals, stdout, history >>

\* if 'interface RouteParams' in content: print, return False
GuardSkip ==
  /\ pc = "guard"
  /\ AlreadyMigrated(content)
  /\ stdout' = Append(stdout, "  " \o filepath \o " - Already has RouteParams interface")
  /\ ret' = [ ret EXCEPT ![fi] = "False" ]
  /\ fi' = fi + 1
  /\ content' = ""
  /\ pc' = "loop"
  /\ UNCHANGED << disk, mode, run, lines, new_lines, li, in_function, added_await, history >>

GuardPass ==
  /\ pc = "guard"
  /\ ~AlreadyMigrated(content)
  /\ pc' = "inject"
  /\ UNCHANGED << disk, mode, run, fi, locals, ret, stdout, history >>

\* Add interface after imports
InjectStep ==
  /\ pc = "inject"
  /\ content' = Inject(content, param_name)
  /\ inj' = content'
  /\ pc' = "sigsub"
  /\ UNCHANGED << disk, mode, run, fi, lines, new_lines, li, in_function, added_await,
                  ret, stdout, start, prevret, wopened, src0, sig, ins >>

\* Replace function signature patterns
SigSubStep ==
  /\ pc = "sigsub"
  /\ content' = SigSub(content, param_name)
  /\ sig' = content'
  /\ pc' = "split"
  /\ UNCHANGED << disk, mode, run, fi, lines, new_lines, li, in_function, added_await,
                  ret, stdout, start, prevret, wopened, src0, inj, ins >>

\* lines = content.split('\n'); new_lines = []; in_function = False; added_await = False
SplitStep ==
  /\ pc = "split"
  /\ lines' = Split(content, "\n")
  /\ new_lines' = << >>
  /\ in_function' = FALSE
  /\ added_await' = FALSE
  /\ li' = 1
  /\ pc' = "scan"
  /\ UNCHANGED << disk, mode, run, fi, content, ret, stdout, history >>

\* one iteration of: for i, line in enumerate(lines)
ScanStep ==
  /\ pc = "scan"
  /\ li <= Len(lines)
  /\ LET r == ScanLine(lines[li], in_function, added_await, param_name)
     IN /\ new_lines' = new_lines \o r.out
        /\ in_function' = r.in_function
        /\ added_await' = r.added_await
        /\ ins' = IF Len(r.out) > 1 THEN ins \cup { li } ELSE ins
  /\ li' = li + 1
  /\ UNCHANGED << disk, mode, run, fi, pc, content, lines, ret, stdout,
                  start, prevret, wopened, src0, inj, sig >>

\* content = '\n'.join(new_lines)
JoinStep ==
  /\ pc = "scan"
  /\ li > Len(lines)
  /\ content' = Join(new_lines, "\n")
  /\ pc' = "refsub"
  /\ UNCHANGED << disk, mode, run, fi, lines, new_lines, li, in_function, added_await,
                  ret, stdout, history >>

\* Replace params.id or params.username with just id or username
RefSubStep ==
  /\ pc = "refsub"
  /\ content' = RefSub(content, param_name)
  /\ pc' = "write"
  /\ UNCHANGED << disk, mode, run, fi, lines, new_lines, li, in_function, added_await,
                  ret, stdout, history >>

\* with open(filepath, 'w', encoding='utf-8') as f: f.write(content)
WriteOk ==
  /\ pc = "write"
  /\ mode[filepath] = "ok"
  /\ disk' = [ disk EXCEPT ![filepath] = Encode(content) ]
  /\ wopened' = wopened \cup { filepath }
  /\ pc' = "return"
  /\ UNCHANGED << mode, run, fi, locals, ret, stdout, start, prevret, src0, inj, sig, ins >>

\* open(filepath, 'w') raises before the file is truncated
WriteFail ==
  /\ pc = "write"
  /\ mode[filepath] = "readonly"
  /\ Raise
  /\ UNCHANGED << disk, mode, run, fi, locals, stdout, history >>

\* print Fixed!, return True
Return ==
  /\ pc = "return"
  /\ stdout' = Append(stdout, "  " \o filepath \o " - Fixed!")
  /\ ret' = [ ret EXCEPT ![fi] = "True" ]
  /\ fi' = fi + 1
  /\ content' = ""
  /\ lines' = << >>
  /\ new_lines' = << >>
  /\ li' = 1
  /\ in_function' = FALSE
  /\ added_await' = FALSE
  /\ pc' = "loop"
  /\ UNCHANGED << disk, mode, run, history >>

\* the loop is exhausted: print("\nDone!")
Done ==
  /\ pc = "loop"
  /\ fi > Len(files)
  /\ stdout' = Append(stdout, "\nDone!")
  /\ pc' = "exit"
  /\ UNCHANGED << disk, mode, run, fi, locals, ret, history >>

\* the operator runs the script again on the same tree
Rerun ==
  /\ pc \in { "exit", "aborted" }
  /\ run < MaxRuns
  /\ run' = run + 1
  /\ fi' = 1
  /\ pc' = "loop"
  /\ content' = ""
  /\ lines' = << >>
  /\ new_lines' = << >>
  /\ li' = 1
  /\ in_function' = FALSE
  /\ added_await' = FALSE
  /\ ret' = NoReturns
  /\ stdout' = Banner
  /\ start' = disk
  /\ prevret' = ret
  /\ wopened' = {}
  /\ src0' = ""
  /\ inj' = ""
  /\ sig' = ""
  /\ ins' = {}
  /\ UNCHANGED << disk, mode >>

Next ==
  \/ ReadOk
  \/ ReadFail
  \/ GuardSkip
  \/ GuardPass
  \/ InjectStep
  \/ SigSubStep
  \/ SplitStep
  \/ ScanStep
  \/ JoinStep
  \/ RefSubStep
  \/ WriteOk
  \/ WriteFail
  \/ Return
  \/ Done
  \/ Rerun

Spec == Init /\ [][Next]_vars

(***************************************************************************)
(* Vocabulary of the properties                                            *)
(***************************************************************************)

PathOf(k) == files[k][1]
NameOf(k) == files[k][2]

\* the parameter name the current file is not configured for
OtherName == IF param_name = "id" THEN "username" ELSE "id"

\* the current call has computed its whole output and not yet returned
Computed == pc \in { "write", "return" }

\* the number of non-overlapping occurrences of sub in s from i on (s.count)
RECURSIVE CountFrom(_, _, _)
CountFrom(s, sub, i) ==
  LET p == Find(s, sub, i)
  IN IF p = -1 THEN 0 ELSE 1 + CountFrom(s, sub, p + Len(sub))

Count(s, sub) == CountFrom(s, sub, 0)

\* the characters that continue an identifier
IdentChars ==
  { "a", "b", "c", "d", "e", "f", "g", "h", "i", "j", "k", "l", "m", "n",
    "o", "p", "q", "r", "s", "t", "u", "v", "w", "x", "y", "z", "A", "B",
    "C", "D", "E", "F", "G", "H", "I", "J", "K", "L", "M", "N", "O", "P",
    "Q", "R", "S", "T", "U", "V", "W", "X", "Y", "Z", "0", "1", "2", "3",
    "4", "5", "6", "7", "8", "9", "_", "$" }

\* the occurrences of params.<name> that run on into a longer identifier
LongerRefs(s, name) ==
  LET ref == "params." \o name
  IN { i \in 0..(Len(s) - Len(ref) - 1) :
         /\ StartsAt(s, i, ref)
         /\ SubSeq(s, i + Len(ref) + 1, i + Len(ref) + 1) \in IdentChars }

\* the occurrences of params.<name> that are the whole member access
WholeRefs(s, name) ==
  LET ref == "params." \o name
  IN { i \in 0..(Len(s) - Len(ref)) : StartsAt(s, i, ref) } \ LongerRefs(s, name)

\* the destructured shape with any whitespace between any two tokens
LooseChunks(name) ==
  << "{", "params", "}", ":", "{", "params", ":", "{", name, ":", "string", "}", "}" >>

TryLines(ls) == { j \in 1..Len(ls) : Contains(ls[j], "try {") }
MarkerLines(ls) == { m \in 1..Len(ls) : Contains(ls[m], Marker) }

\* the text is two or more import lines and then its first blank line
HasImportSection(text) ==
  LET blank == Find(text, "\n\n", 0)
      head == Split(Slice(text, 0, blank), "\n")
  IN /\ blank # -1
     /\ Len(head) >= 2
     /\ \A i \in 1..Len(head) : StartsAt(head[i], 0, "import ")

(***************************************************************************)
(* C1  Guard idempotence.  Once a call on a file has returned (rewritten   *)
(* or skipped), the next run's call on that file never gets past the       *)
(* guard, returns False, and the file stays byte for byte what the first   *)
(* run left.                                                               *)
(***************************************************************************)
C1_GuardIdempotence ==
  \A k \in 1..Len(files) :
    (run > 1 /\ prevret[k] \in { "True", "False" }) =>
      /\ disk[PathOf(k)] = start[PathOf(k)]
      /\ fi = k => pc \in { "loop", "guard" }
      /\ fi > k => ret[k] = "False"
      /\ PathOf(k) \notin wopened

C1_Witness ==
  /\ run = 2
  /\ pc = "exit"
  /\ prevret[1] = "True"
  /\ ret[1] = "False"
  /\ disk[PathOf(1)] = start[PathOf(1)]

(***************************************************************************)
(* C2  Injection placement.  For a text that is two or more import lines   *)
(* followed by its first blank line, the import lines all stay in front of *)
(* the injected block, which sits before that blank line.                  *)
(***************************************************************************)
C2_InjectionPlacement ==
  (pc = "sigsub" /\ HasImportSection(src0)) =>
    LET blank == Find(src0, "\n\n", 0)
    IN inj = Slice(src0, 0, blank + 1) \o interface_code(param_name)
               \o Slice(src0, blank + 1, Len(src0))

(***************************************************************************)
(* C3  Reference rewrite scope.  In the output no whole params.N is left,  *)
(* and the occurrences of params.N that run on into a longer identifier    *)
(* (params.usernameSuffix for N = username) are as many as in the input.   *)
(***************************************************************************)
C3_ReferenceRewriteScope ==
  pc = "write" =>
    /\ WholeRefs(content, param_name) = {}
    /\ Cardinality(LongerRefs(content, param_name))
         = Cardinality(LongerRefs(src0, param_name))

(***************************************************************************)
(* C4  Signature rewrite precision, as claimed: the output holds no        *)
(* destructured shape for N however the whitespace between its tokens is   *)
(* laid out, and the shapes for another name are as many as in the input.  *)
(***************************************************************************)
C4_SignatureRewritePrecision ==
  pc = "write" =>
    /\ MatchCount(content, LooseChunks(param_name)) = 0
    /\ MatchCount(content, LooseChunks(OtherName)) = MatchCount(src0, LooseChunks(OtherName))

(***************************************************************************)
(* C4 amended.  Step 2 replaces exactly the shapes for N that have no      *)
(* whitespace before a colon: its result matches the pattern nowhere, has  *)
(* one more marker per match, still holds the shapes for N that have       *)
(* whitespace before a colon, and holds the shapes for the other name as   *)
(* they were.                                                              *)
(***************************************************************************)
C4_SignatureRewriteByPattern ==
  pc = "split" =>
    LET n == MatchCount(inj, SigChunks(param_name))
    IN /\ MatchCount(sig, SigChunks(param_name)) = 0
       /\ Count(sig, Marker) = Count(inj, Marker) + n
       /\ MatchCount(sig, LooseChunks(param_name))
            = MatchCount(inj, LooseChunks(param_name)) - n
       /\ MatchCount(sig, LooseChunks(OtherName)) = MatchCount(inj, LooseChunks(OtherName))
       /\ Len(sig) <= Len(inj)
       /\ n = 0 => sig = inj

C4_Witness ==
  /\ pc = "split"
  /\ MatchCount(inj, SigChunks(param_name)) >= 1
  /\ MatchCount(sig, LooseChunks(param_name)) >= 1
  /\ Contains(sig, Marker)

(***************************************************************************)
(* C5  Extraction insertion exactness.  For the first 'try {' line at or   *)
(* after the first marker line, the output has that line, then exactly     *)
(* indent + 2 spaces and const { N } = await params, then the line that    *)
(* followed 'try {' before.                                                *)
(***************************************************************************)
C5_ExtractionInsertionExact ==
  (pc = "write" /\ MarkerLines(lines) # {}) =>
    LET after == { j \in TryLines(lines) : j >= MinOf(MarkerLines(lines)) }
        out == Split(content, "\n")
    IN after # {} =>
         LET j == MinOf(after)
             want == Spaces(LeadingSpace(lines[j]) + 2) \o "const { " \o param_name
                       \o " } = await params"
         IN \E q \in 1..Len(out) :
              /\ out[q] = RefSub(lines[j], param_name)
              /\ q + 1 <= Len(out)
              /\ out[q + 1] = want
              /\ j < Len(lines) =>
                   /\ q + 2 <= Len(out)
                   /\ out[q + 2] = RefSub(lines[j + 1], param_name)

(***************************************************************************)
(* C6  No try block.  When no line at or after a marker line contains      *)
(* 'try {', the scan inserts nothing and copies every line in order, so    *)
(* the output is the input changed by Steps 1, 2 and 4 alone.              *)
(***************************************************************************)
NoTryAfterMarker(ls) ==
  \A m \in MarkerLines(ls), j \in TryLines(ls) : j < m

C6_NoTryNoExtraction ==
  (Computed /\ NoTryAfterMarker(lines)) =>
    /\ ins = {}
    /\ new_lines = lines
    /\ ~Contains(content, "await params")
    /\ content = RefSub(SigSub(Inject(src0, param_name), param_name), param_name)

C6_Witness ==
  /\ pc = "write"
  /\ NoTryAfterMarker(lines)
  /\ MarkerLines(lines) # {}
  /\ TryLines(lines) # {}
  /\ sig # inj

(***************************************************************************)
(* C7  No partial write.  In every state a file's persisted text is what   *)
(* it was when the run began unless the run has opened it for writing, and *)
(* a call the guard skipped has not; every step that changes a file is the *)
(* write step of the call on that file, taken once the whole output has    *)
(* been computed, and takes the file from the text the run began with to   *)
(* the complete output of the four steps on the text read.                 *)
(***************************************************************************)
C7_State ==
  \A k \in 1..Len(files) :
    /\ disk[PathOf(k)] = start[PathOf(k)] \/ PathOf(k) \in wopened
    /\ ret[k] = "False" => (PathOf(k) \notin wopened /\ disk[PathOf(k)] = start[PathOf(k)])
    /\ PathOf(k) \in wopened => (fi > k \/ (fi = k /\ pc = "return"))

C7_Step ==
  \A k \in 1..Len(files) :
    (disk'[PathOf(k)] # disk[PathOf(k)] \/ PathOf(k) \in wopened' \ wopened) =>
      /\ fi = k
      /\ pc = "write"
      /\ disk[PathOf(k)] = start[PathOf(k)]
      /\ src0 = Decode(start[PathOf(k)])
      /\ disk'[PathOf(k)] = Transform(src0, NameOf(k))
      /\ \A j \in 1..Len(files) : j # k => disk'[PathOf(j)] = disk[PathOf(j)]

C8_FailureIsolation ==
  pc \in { "exit", "aborted" } =>
    /\ \A k \in 1..Len(files) : ret[k] # "none"
    /\ stdout[Len(stdout)] = "\nDone!"

(***************************************************************************)
(* C9  Silent mismatch, as claimed: a file that passes the guard and in    *)
(* which the Step 2 pattern matches nowhere is persisted unchanged.        *)
(***************************************************************************)
C9_SilentMismatchNoChange ==
  (pc = "return" /\ MatchCount(inj, SigChunks(param_name)) = 0) =>
    disk[filepath] = start[filepath]

(***************************************************************************)
(* C9 amended.  In such a file only Step 2 changes nothing: the interface  *)
(* block is still injected and Steps 3 and 4 still apply, so the file is   *)
(* rewritten, holds 'interface RouteParams' and differs from the original. *)
(***************************************************************************)
C9_SilentMismatchStillRewrites ==
  (pc = "return" /\ MatchCount(inj, SigChunks(param_name)) = 0) =>
    /\ sig = inj
    /\ inj # src0
    /\ Contains(disk[filepath], "interface RouteParams")
    /\ disk[filepath] # start[filepath]
    /\ disk[filepath] = RefSub(InsertAwait(Inject(src0, param_name), param_name), param_name)

C9_Witness ==
  /\ pc = "return"
  /\ MatchCount(inj, SigChunks(param_name)) = 0
  /\ ~Contains(start[filepath], "interface RouteParams")
  /\ Contains(disk[filepath], "interface RouteParams")

(***************************************************************************)
(* C10  One-shot arm/disarm trigger.  At every point of the scan the lines *)
(* that got an extraction are exactly the 'try {' lines that are the first *)
(* such line at or after some marker line; so there are never more         *)
(* extractions than marker lines, and new_lines is the scanned lines plus  *)
(* one line per extraction.                                                *)
(***************************************************************************)
C10_OneShotTrigger ==
  pc \in { "scan", "refsub", "write", "return" } =>
    LET tries == { j \in TryLines(lines) : j < li }
        marks == { m \in MarkerLines(lines) : m < li }
    IN /\ ins = { j \in tries :
                    \E m \in marks : m <= j /\ \A q \in tries : ~(m <= q /\ q < j) }
       /\ Cardinality(ins) <= Cardinality(marks)
       /\ Len(new_lines) = (li - 1) + Cardinality(ins)

C10_Witness ==
  /\ pc = "refsub"
  /\ Cardinality(ins) = 2
  /\ Cardinality(MarkerLines(lines)) = 2
  /\ \E j \in TryLines(lines) : j < MinOf(MarkerLines(lines))
  /\ \E j \in TryLines(lines) \ ins : j > MinOf(MarkerLines(lines))

====
